---- MODULE Spec2Model ----
(***************************************************************************)
(* Model of youtube_reverse_player.py: the two-step reversal pipeline      *)
(* (two_step_reverse_and_fps), its streaming runner thread, the progress   *)
(* parser (parse_ffmpeg_progress), the duration probe and the job thread   *)
(* started by VLCPlayerApp.on_generate.                                    *)
(*                                                                         *)
(* Text is a sequence of one-character strings, so that str.split,         *)
(* str.strip and float() are computed rather than assumed.  Numbers are    *)
(* exact rationals [n, d] with d > 0.                                      *)
(***************************************************************************)
EXTENDS Integers, Sequences, FiniteSets

\* ------------------------------------------------------------------ text

\* The characters str.strip() and float() discard at both ends.
WhiteSpace == {" ", "\n", "\t", "\r"}

DigitSeq == <<"0", "1", "2", "3", "4", "5", "6", "7", "8", "9">>

Digits == {DigitSeq[i] : i \in 1..10}

DigitVal(c) == (CHOOSE i \in 1..10 : DigitSeq[i] = c) - 1

\* The marker searched for by parse_ffmpeg_progress: "time=".
TimeMarker == <<"t", "i", "m", "e", "=">>

RECURSIVE LStrip(_)
LStrip(s) ==
    IF s # <<>> /\ Head(s) \in WhiteSpace THEN LStrip(Tail(s)) ELSE s

RECURSIVE RStrip(_)
RStrip(s) ==
    IF s # <<>> /\ s[Len(s)] \in WhiteSpace
    THEN RStrip(SubSeq(s, 1, Len(s) - 1))
    ELSE s

\* str.strip()
Strip(s) == RStrip(LStrip(s))

\* TRUE iff pat occurs in s at position i.
OccursAt(s, pat, i) ==
    /\ i >= 1
    /\ i + Len(pat) - 1 <= Len(s)
    /\ SubSeq(s, i, i + Len(pat) - 1) = pat

\* The first position of pat in s, 0 when there is none (str.find + 1).
Find(s, pat) ==
    IF \E i \in 1..Len(s) : OccursAt(s, pat, i)
    THEN CHOOSE i \in 1..Len(s) :
             /\ OccursAt(s, pat, i)
             /\ \A j \in 1..(i - 1) : ~OccursAt(s, pat, j)
    ELSE 0

\* "pat in s"
Contains(s, pat) == Find(s, pat) # 0

\* s.split(pat): the pieces between the non-overlapping occurrences of pat,
\* scanned from the left.
RECURSIVE Split(_, _)
Split(s, pat) ==
    LET i == Find(s, pat)
    IN  IF i = 0
        THEN <<s>>
        ELSE <<SubSeq(s, 1, i - 1)>> \o Split(SubSeq(s, i + Len(pat), Len(s)), pat)

\* --------------------------------------------------------------- numbers

RECURSIVE Pow10(_)
Pow10(k) == IF k = 0 THEN 1 ELSE 10 * Pow10(k - 1)

\* The value of a sequence of decimal digits (0 for the empty sequence).
RECURSIVE NatOf(_)
NatOf(ds) ==
    IF ds = <<>> THEN 0
    ELSE 10 * NatOf(SubSeq(ds, 1, Len(ds) - 1)) + DigitVal(ds[Len(ds)])

AllDigits(s) == \A i \in 1..Len(s) : s[i] \in Digits

HasSign(s) == s # <<>> /\ Head(s) \in {"+", "-"}

Unsigned(s) == IF HasSign(s) THEN Tail(s) ELSE s

\* The rejection of float(): ValueError.
NotANumber == [ok |-> FALSE, n |-> 0, d |-> 1]

Rat(n, d) == [ok |-> TRUE, n |-> n, d |-> d]

\* The greatest common divisor of a >= 0 and b > 0.
Gcd(a, b) ==
    CHOOSE g \in 1..b :
        /\ a % g = 0
        /\ b % g = 0
        /\ \A k \in (g + 1)..b : ~(a % k = 0 /\ b % k = 0)

Abs(n) == IF n < 0 THEN 0 - n ELSE n

\* n / d in lowest terms (d > 0), or as it is when d = 0.
Reduced(n, d) ==
    IF d = 0 THEN Rat(n, d)
    ELSE Rat(n \div Gcd(Abs(n), d), d \div Gcd(Abs(n), d))

\* float(s) for decimal literals: optional surrounding whitespace, optional
\* sign, digits with an optional fraction, optional exponent.  Every other
\* string raises ValueError.  (The literals inf, infinity and nan and digit
\* groups joined by "_" are outside the alphabet of the modelled lines.)
\* The steps are separate operators, each handing its results to the next.

\* The value: (-1)^neg * mag / 10^fracLen * 10^(+-x)
FloatValue(neg, mag, fracLen, eNeg, x) ==
    Reduced(IF neg THEN 0 - (IF eNeg THEN mag ELSE mag * Pow10(x))
                   ELSE (IF eNeg THEN mag ELSE mag * Pow10(x)),
            IF eNeg THEN Pow10(fracLen) * Pow10(x) ELSE Pow10(fracLen))

\* ip "." fp "e" expo: the digits are checked, then valued.
FloatDigits(neg, ip, fp, hasExp, expo) ==
    IF /\ AllDigits(ip)
       /\ AllDigits(fp)
       /\ (ip # <<>> \/ fp # <<>>)
       /\ (hasExp => (Unsigned(expo) # <<>> /\ AllDigits(Unsigned(expo))))
    THEN FloatValue(neg, NatOf(ip \o fp), Len(fp),
                    expo # <<>> /\ Head(expo) = "-", NatOf(Unsigned(expo)))
    ELSE NotANumber

\* The mantissa is cut at its first ".".
FloatMantissa(neg, mant, dot, hasExp, expo) ==
    FloatDigits(neg,
                IF dot = 0 THEN mant ELSE SubSeq(mant, 1, dot - 1),
                IF dot = 0 THEN <<>> ELSE SubSeq(mant, dot + 1, Len(mant)),
                hasExp, expo)

\* The body is cut at its first "e" or "E".
FloatExponent(neg, body, ePos) ==
    FloatMantissa(neg,
                  IF ePos = 0 THEN body ELSE SubSeq(body, 1, ePos - 1),
                  Find(IF ePos = 0 THEN body ELSE SubSeq(body, 1, ePos - 1), <<".">>),
                  ePos # 0,
                  IF ePos = 0 THEN <<>> ELSE SubSeq(body, ePos + 1, Len(body)))

ExponentPos(body) ==
    IF Contains(body, <<"e">>) THEN Find(body, <<"e">>) ELSE Find(body, <<"E">>)

FloatStripped(t) ==
    FloatExponent(t # <<>> /\ Head(t) = "-", Unsigned(t), ExponentPos(Unsigned(t)))

Float(s) == FloatStripped(Strip(s))

\* A variant of HmsSeconds: the factors of hours and minutes exchanged.
HmsSecondsSwapped(h, m, s) ==
    Reduced(h.n * 60 * m.d * s.d + m.n * 3600 * h.d * s.d + s.n * h.d * m.d,
            h.d * m.d * s.d)

\* h * 3600 + m * 60 + s on exact rationals.
HmsSeconds(h, m, s) ==
    Reduced(h.n * 3600 * m.d * s.d + m.n * 60 * h.d * s.d + s.n * h.d * m.d,
            h.d * m.d * s.d)

\* (current / total_duration) * 100 for an integral total_duration > 0.
Percent(current, total) == Reduced(current.n * 100, current.d * total)

RatLeq(a, b) == a.n * b.d <= b.n * a.d

RatEq(a, b) == a.n * b.d = b.n * a.d

\* --------------------------------------------------- parse of one line

\* What the body of parse_ffmpeg_progress's loop does with one line that is
\* not the sentinel:
\*   kind "none"  - no callback
\*   kind "event" - update_callback(pct), with the elapsed time cur
\*   kind "raise" - float() raises ValueError out of parse_ffmpeg_progress
NoEvent == [kind |-> "none", cur |-> Rat(0, 1), pct |-> Rat(0, 1)]

RaiseValueError == [kind |-> "raise", cur |-> Rat(0, 1), pct |-> Rat(0, 1)]

\* A variant of ParseHms: the callback is made whatever total_duration is.
ParseHmsNoGuard(h, m, s, total_duration) ==
    IF ~h.ok \/ ~m.ok \/ ~s.ok THEN RaiseValueError
    ELSE [kind |-> "event", cur |-> HmsSeconds(h, m, s),
          pct |-> Percent(HmsSeconds(h, m, s), total_duration)]

\* lines 134-137: current and, for total_duration > 0, the callback.
ParseHms(h, m, s, total_duration) ==
    IF ~h.ok \/ ~m.ok \/ ~s.ok THEN RaiseValueError
    ELSE IF total_duration > 0
         THEN [kind |-> "event", cur |-> HmsSeconds(h, m, s),
               pct |-> Percent(HmsSeconds(h, m, s), total_duration)]
         ELSE NoEvent

\* lines 130-133: three segments, each through float().
ParseToken(hhmmss, total_duration) ==
    IF Len(hhmmss) # 3 THEN NoEvent
    ELSE ParseHms(Float(hhmmss[1]), Float(hhmmss[2]), Float(hhmmss[3]),
                  total_duration)

\* lines 127-129: t_str = parts[1].split(" ")[0]; hhmmss = t_str.split(":")
ParseParts(parts, total_duration) ==
    IF ~(Len(parts) > 1) THEN NoEvent
    ELSE ParseToken(Split(Split(parts[2], <<" ">>)[1], <<":">>), total_duration)

\* lines 125-126: if "time=" in line: parts = line.split("time=")
ParseStripped(line, total_duration) ==
    IF ~Contains(line, TimeMarker) THEN NoEvent
    ELSE ParseParts(Split(line, TimeMarker), total_duration)

\* line 124: line = line.strip()
ParseLine(rawLine, total_duration) == ParseStripped(Strip(rawLine), total_duration)

\* ------------------------------------------------------------ the bounds

\* The number of diagnostic lines one streaming process emits, at most.
MaxLines == 2

\* The durations (seconds) a valid media file may have.
Durations == {5, 10}

\* The diagnostic lines a transcoder process may write to its stderr, as
\* readline() returns them.
LineNoise == <<"f", "r", "a", "m", "e", "=", "1", "\n">>

LineHalf == <<"t", "i", "m", "e", "=", "0", "0", ":", "0", "0", ":", "0", "2", ".", "5", "0", " ", "x", "\n">>

LineFive == <<"a", " ", "t", "i", "m", "e", "=", "0", "0", ":", "0", "0", ":", "0", "5", ".", "0", "0", "\n">>

LineTen == <<"t", "i", "m", "e", "=", "0", "0", ":", "0", "0", ":", "1", "0", ".", "0", "0", " ", "x", "\n">>

LineNA == <<"t", "i", "m", "e", "=", "N", "/", "A", " ", "x", "\n">>

LineBad == <<"t", "i", "m", "e", "=", "0", "0", ":", "0", "x", ":", "0", "1", "\n">>

DiagLines == {LineNoise, LineHalf, LineFive, LineTen, LineNA, LineBad}

\* ------------------------------------------------------------- the state

VARIABLES
    pc,         \* position of the job thread (download_and_reverse)
    stage,      \* 0 before the reversal, 1 = cmd1 (REVERSE), 2 = cmd2 (RESAMPLE)
    error,      \* the exception that ended the job thread, "none" if none
    fs,         \* the files original.mp4, <out>_step1.mp4, reversed_final.mp4
    total_dur,  \* two_step_reverse_and_fps: total_dur
    dur_step2,  \* two_step_reverse_and_fps: dur_step2
    runner,     \* the runner thread of the current run_cmd
    proc,       \* the process started by the runner's Popen
    bproc,      \* the process of the blocking subprocess.run
    pipe,       \* proc.stderr: lines written and not yet read
    queue,      \* stderr_lines
    emitLog,    \* history: the lines the streaming process wrote, in order
    getLog,     \* history: the items parse_ffmpeg_progress dequeued, in order
    events,     \* history: the calls of progress_callback in the current stage
    procLog,    \* history: starts and exits of transcoder processes
    reached,    \* history: the stages in which a callback of 100 or more was made
    media,      \* media_player: "none", or "loaded" after set_media
    parseIn,    \* a call of the loop body of parse_ffmpeg_progress: its line
    parseOut,   \* ... and what the call did
    temp_dir,   \* VLCPlayerApp.temp_dir
    video_paths, \* the folder of downloaded_video_path and reversed_video_path
    jobs,       \* the download_and_reverse threads started by on_generate
    hookLog,    \* download_video: the events yt_dlp gave to hook, in order
    dlCalls,    \* download_video: the values progress_callback was called with
    fmtIn,      \* get_available_formats: info["formats"]
    fmtOut,     \* get_available_formats: the list returned
    progress_var, \* VLCPlayerApp.progress_var, the value of the progress bar
    reports,    \* history: the percentages set_progress was called with
    keep_video_var, \* the "Do not delete reversed video" checkbox
    dirs,       \* the folders that exist
    settings,   \* the content of settings.json
    closed      \* on_close has run; the folders that existed before it

\* The state of the job and of its pipeline.
pipeVars == <<pc, stage, error, fs, total_dur, dur_step2, runner, proc, bproc,
              pipe, queue, emitLog, getLog, events, procLog, reached>>

parseVars == <<parseIn, parseOut>>

jobVars == <<temp_dir, video_paths, jobs>>

dlVars == <<hookLog, dlCalls>>

fmtVars == <<fmtIn, fmtOut>>

progVars == <<progress_var, reports>>

closeVars == <<keep_video_var, dirs, settings, closed>>

\* What the steps of the two-step reversal leave alone.
others == <<media, parseVars, jobVars, dlVars, fmtVars, progVars, closeVars>>

vars == <<pipeVars, others>>

\* The None that runner() puts after its loop.  No line equals it: lines are
\* sequences of one-character strings.
Sentinel == <<"None">>

NoFile == [ex |-> FALSE, dur |-> 0]

\* A file that exists and is no valid media file (dur = 0: nothing to probe).
PartialFile == [ex |-> TRUE, dur |-> 0]

MediaFile(d) == [ex |-> TRUE, dur |-> d]

IsMedia(f) == f.ex /\ f.dur > 0

\* os.path.splitext(out_path)[0] + "_step1.mp4", cmd1 and cmd2: the file a
\* stage reads and the file it writes.
InputOf(st) == IF st = 1 THEN "orig" ELSE "step1"

OutputOf(st) == IF st = 1 THEN "step1" ELSE "out"

\* What ffprobe and float() can do inside get_video_duration's try block:
\* Popen fails (ffprobe missing), ffprobe exits non-zero, its output is no
\* number, or the duration is printed and parsed.
ProbeOutcomes == {"launch_error", "nonzero_exit", "unparsable", "ok"}

\* ffprobe prints a duration only for a valid media file.
ProbeOutcomesOf(f) == IF IsMedia(f) THEN ProbeOutcomes ELSE ProbeOutcomes \ {"ok"}

\* The try block, lines 151-153: check_output raises OSError or
\* CalledProcessError, float raises ValueError, or the value is returned.
ProbeTry(o, f) ==
    IF o = "ok"
    THEN [raised |-> FALSE, value |-> f.dur]
    ELSE [raised |-> TRUE, value |-> 0]

\* A variant of GetVideoDuration: no except clause, the exception leaves
\* the function.
GetVideoDurationNoExcept(o, f) == ProbeTry(o, f)

\* get_video_duration, lines 150-155: the bare except turns every exception
\* of the try block into the return value 0.0.
GetVideoDuration(o, f) ==
    IF ProbeTry(o, f).raised
    THEN [raised |-> FALSE, value |-> 0]
    ELSE ProbeTry(o, f)

\* The file system after a transcoder process of stage st exits with rc.
\* Exit status 0 needs a readable input and leaves a valid output; a failed
\* process leaves its output as it was or half-written.
ExitOutcomes(st, rc) ==
    IF rc = 0
    THEN IF IsMedia(fs[InputOf(st)])
         THEN {[fs EXCEPT ![OutputOf(st)] = MediaFile(d)] : d \in Durations}
         ELSE {}
    ELSE {fs, [fs EXCEPT ![OutputOf(st)] = PartialFile]}

ExitCodes == {0, 1}

Started(st, mode) == [ev |-> "start", stage |-> st, mode |-> mode, rc |-> 0]

Exited(st, mode, rc) == [ev |-> "exit", stage |-> st, mode |-> mode, rc |-> rc]

\* No call of the parser on its own has been made.
NoCall == [kind |-> "none", line |-> <<>>, dur |-> 0, milli |-> 0, first |-> TRUE]

\* The call has not been made yet.
Pending == [kind |-> "pending", cur |-> Rat(0, 1), pct |-> Rat(0, 1)]

ParseIdle == parseIn = NoCall /\ parseOut = Pending

\* The number of clicks on "Generate Reversed Video" that are followed.
MaxJobs == 2

Jobs == 1..MaxJobs

\* The folders temp_dir can name.
Dirs == {"A", "B"}

\* A job thread: not created, created, inside download_video, inside
\* two_step_reverse_and_fps, ended; dir is the folder of the paths its
\* current call was given.
NoJob == [phase |-> "idle", dir |-> "none"]

\* __init__, lines 247-255: temp_dir is set, the two paths are None and no
\* job thread exists.
JobsIdle ==
    /\ temp_dir = "A"
    /\ video_paths = "none"
    /\ jobs = [j \in Jobs |-> NoJob]

\* download_video has not been called.
DlIdle == hookLog = <<>> /\ dlCalls = <<>>

\* get_available_formats has not returned.
NoResult == [done |-> FALSE, list |-> <<>>]

FmtIdle == fmtIn = <<>> /\ fmtOut = NoResult

\* The window is open.
NotClosed == [done |-> FALSE, before |-> {}]

\* The progress bar before set_progress has run (line 360:
\* tk.DoubleVar(value=0)).
ProgressStart == progress_var = Rat(0, 1) /\ reports = <<>>

\* The window of a first start in folder "A", not closed: load_config's
\* default (lines 31-34) and the progress bar at 0.
UiIdle ==
    /\ ProgressStart
    /\ keep_video_var = FALSE
    /\ dirs = {"A"}
    /\ settings = [temp_folder |-> "None", keep_reversed_video |-> FALSE]
    /\ closed = NotClosed

\* The job before on_generate, over the files fs0 of temp_dir.
PipeStart(fs0) ==
    /\ pc = "generate"
    /\ stage = 0
    /\ error = "none"
    /\ fs = fs0
    /\ total_dur = 0
    /\ dur_step2 = 0
    /\ runner = "none"
    /\ proc = "none"
    /\ bproc = "none"
    /\ pipe = <<>>
    /\ queue = <<>>
    /\ emitLog = <<>>
    /\ getLog = <<>>
    /\ events = <<>>
    /\ procLog = <<>>
    /\ reached = {}
    /\ media = "none"

\* The files of temp_dir before on_generate: temp_dir may be a folder of an
\* earlier session or one the user chose, so each file may be there already.
Init ==
    /\ \E fs0 \in [{"orig", "step1", "out"} -> {NoFile, MediaFile(5)}] : PipeStart(fs0)
    /\ ParseIdle
    /\ JobsIdle
    /\ DlIdle
    /\ FmtIdle
    /\ UiIdle

\* The job is not started: the state of the specifications of single
\* functions.
PipeIdle == PipeStart([f \in {"orig", "step1", "out"} |-> NoFile])

\* ------------------------------------------------- the job thread

\* on_generate, lines 559-574 and 613: the old original.mp4 and
\* reversed_final.mp4 are removed, then the job thread is started.
OnGenerate ==
    /\ pc = "generate"
    /\ fs' = [fs EXCEPT !["orig"] = NoFile, !["out"] = NoFile]
    /\ pc' = "download"
    /\ UNCHANGED <<others, reached, stage, error, total_dur, dur_step2, runner, proc, bproc,
                   pipe, queue, emitLog, getLog, events, procLog>>

\* download_video returns: original.mp4 is a media file.
DownloadOk ==
    /\ pc = "download"
    /\ \E d \in Durations : fs' = [fs EXCEPT !["orig"] = MediaFile(d)]
    /\ pc' = "probe1"
    /\ UNCHANGED <<others, reached, stage, error, total_dur, dur_step2, runner, proc, bproc,
                   pipe, queue, emitLog, getLog, events, procLog>>

\* download_video raises: "Download error" is logged and the thread returns.
DownloadFail ==
    /\ pc = "download"
    /\ fs' \in {fs, [fs EXCEPT !["orig"] = PartialFile]}
    /\ pc' = "dl_failed"
    /\ error' = "DownloadError"
    /\ UNCHANGED <<others, reached, stage, total_dur, dur_step2, runner, proc, bproc,
                   pipe, queue, emitLog, getLog, events, procLog>>

\* two_step_reverse_and_fps, line 171: total_dur = get_video_duration(in_path)
Probe1 ==
    /\ pc = "probe1"
    /\ \E o \in ProbeOutcomesOf(fs["orig"]) :
        LET r == GetVideoDuration(o, fs["orig"])
        IN  /\ total_dur' = r.value
            /\ stage' = IF r.raised THEN stage ELSE 1
            /\ pc' = IF r.raised THEN "raised" ELSE "spawn"
            /\ error' = IF r.raised THEN "ProbeError" ELSE error
    /\ UNCHANGED <<others, reached, fs, dur_step2, runner, proc, bproc,
                   pipe, queue, emitLog, getLog, events, procLog>>

\* A variant of StageDuration: both stages scaled by the input's duration.
StageDurationInherited == total_dur

\* The duration run_cmd is called with: run_cmd(cmd1, total_dur) and
\* run_cmd(cmd2, dur_step2).
StageDuration == IF stage = 1 THEN total_dur ELSE dur_step2

\* A variant of AfterSpawn: run_cmd returns without consuming the queue.
AfterSpawnNoWait == "block"

\* run_cmd after t.start(): parse_ffmpeg_progress is entered.
AfterSpawn == "parse"

\* run_cmd, lines 200-214: a new queue, and the runner thread is started.
StartRunner ==
    /\ pc = "spawn"
    /\ runner' = "starting"
    /\ proc' = "none"
    /\ pipe' = <<>>
    /\ queue' = <<>>
    /\ emitLog' = <<>>
    /\ getLog' = <<>>
    /\ pc' = AfterSpawn
    /\ UNCHANGED <<others, reached, stage, error, fs, total_dur, dur_step2, bproc, events, procLog>>

\* A variant of AfterEmpty: queue.Empty ends the loop (break for continue).
AfterEmptyBreak == "block"

\* parse_ffmpeg_progress, lines 118-121: the queue stayed empty for 0.1 s:
\* queue.Empty, continue.
AfterEmpty == "parse"

ParseTimeout ==
    /\ pc = "parse"
    /\ queue = <<>>
    /\ pc' = AfterEmpty
    /\ UNCHANGED <<others, reached, stage, error, fs, total_dur, dur_step2, runner, proc, bproc,
                   pipe, queue, emitLog, getLog, events, procLog>>

\* A variant of AfterSentinel: no blocking run, the call goes on behind it.
AfterSentinelNoBlock == IF stage = 1 THEN "probe2" ELSE "cleanup"

\* lines 226-227 and 232-233: the statement behind run_cmd(cmd, ...) is
\* subprocess.run(cmd, check=True) with the same command.
AfterSentinel == "block"

\* parse_ffmpeg_progress, lines 119-123: the sentinel is dequeued, the loop
\* breaks and run_cmd returns to the blocking subprocess.run.
ParseSentinel ==
    /\ pc = "parse"
    /\ queue # <<>>
    /\ Head(queue) = Sentinel
    /\ queue' = Tail(queue)
    /\ getLog' = Append(getLog, Sentinel)
    /\ pc' = AfterSentinel
    /\ UNCHANGED <<others, reached, stage, error, fs, total_dur, dur_step2, runner, proc, bproc,
                   pipe, emitLog, events, procLog>>

\* The loop body on each line a process writes, for each duration a probe
\* gives.
DiagParse == [l \in DiagLines |-> [d \in {0} \cup Durations |-> ParseLine(l, d)]]

\* parse_ffmpeg_progress, lines 119-137: a line is dequeued and parsed.
ParseDiagLine ==
    /\ pc = "parse"
    /\ queue # <<>>
    /\ Head(queue) # Sentinel
    /\ queue' = Tail(queue)
    /\ getLog' = Append(getLog, Head(queue))
    /\ LET r == DiagParse[Head(queue)][StageDuration]
       IN  /\ events' = IF r.kind = "event"
                        THEN Append(events, [stage |-> stage, cur |-> r.cur, pct |-> r.pct])
                        ELSE events
           /\ pc' = IF r.kind = "raise" THEN "raised" ELSE "parse"
           /\ error' = IF r.kind = "raise" THEN "ValueError" ELSE error
           /\ reached' = IF r.kind = "event" /\ RatLeq(Rat(100, 1), r.pct)
                         THEN reached \cup {stage}
                         ELSE reached
    /\ UNCHANGED <<others, stage, fs, total_dur, dur_step2, runner, proc, bproc,
                   pipe, emitLog, procLog>>

\* subprocess.run(cmd, check=True), lines 227 and 233: the process starts.
BlockLaunch ==
    /\ pc = "block"
    /\ bproc' = "running"
    /\ procLog' = Append(procLog, Started(stage, "block"))
    /\ pc' = "blockwait"
    /\ UNCHANGED <<others, reached, stage, error, fs, total_dur, dur_step2, runner, proc,
                   pipe, queue, emitLog, getLog, events>>

\* subprocess.run cannot start the process: OSError.
BlockLaunchFail ==
    /\ pc = "block"
    /\ pc' = "raised"
    /\ error' = "OSError"
    /\ UNCHANGED <<others, reached, stage, fs, total_dur, dur_step2, runner, proc, bproc,
                   pipe, queue, emitLog, getLog, events, procLog>>

\* subprocess.run(cmd, check=True) returns: a non-zero status raises
\* CalledProcessError, status 0 goes on to the next statement.
BlockExit ==
    /\ pc = "blockwait"
    /\ \E rc \in ExitCodes :
        /\ fs' \in ExitOutcomes(stage, rc)
        /\ procLog' = Append(procLog, Exited(stage, "block", rc))
        /\ pc' = IF rc # 0 THEN "raised"
                 ELSE IF stage = 1 THEN "probe2" ELSE "cleanup"
        /\ error' = IF rc # 0 THEN "CalledProcessError" ELSE error
    /\ bproc' = "none"
    /\ UNCHANGED <<others, reached, stage, total_dur, dur_step2, runner, proc,
                   pipe, queue, emitLog, getLog, events>>

\* line 229: dur_step2 = get_video_duration(step1)
Probe2 ==
    /\ pc = "probe2"
    /\ \E o \in ProbeOutcomesOf(fs["step1"]) :
        LET r == GetVideoDuration(o, fs["step1"])
        IN  /\ dur_step2' = r.value
            /\ pc' = IF r.raised THEN "raised" ELSE "reset"
            /\ error' = IF r.raised THEN "ProbeError" ELSE error
    /\ UNCHANGED <<others, reached, stage, fs, total_dur, runner, proc, bproc,
                   pipe, queue, emitLog, getLog, events, procLog>>

\* lines 230-231: progress_callback(0), then the second stage.
Reset ==
    /\ pc = "reset"
    /\ events' = <<[stage |-> 0, cur |-> Rat(0, 1), pct |-> Rat(0, 1)]>>
    /\ stage' = 2
    /\ pc' = "spawn"
    /\ UNCHANGED <<others, reached, error, fs, total_dur, dur_step2, runner, proc, bproc,
                   pipe, queue, emitLog, getLog, procLog>>

\* A variant of CleanupFs: the intermediate file is kept.
CleanupSkip == fs

\* lines 236-237: if os.path.isfile(step1): os.remove(step1)
CleanupFs == IF fs["step1"].ex THEN [fs EXCEPT !["step1"] = NoFile] ELSE fs

Cleanup ==
    /\ pc = "cleanup"
    /\ fs' = CleanupFs
    /\ pc' = "returned"
    /\ UNCHANGED <<others, reached, stage, error, total_dur, dur_step2, runner, proc, bproc,
                   pipe, queue, emitLog, getLog, events, procLog>>

\* ------------------------------------- the runner thread and its process

\* runner(), line 203: Popen starts the process.
RunnerPopen ==
    /\ runner = "starting"
    /\ runner' = "reading"
    /\ proc' = "running"
    /\ procLog' = Append(procLog, Started(stage, "stream"))
    /\ UNCHANGED <<others, reached, pc, stage, error, fs, total_dur, dur_step2, bproc,
                   pipe, queue, emitLog, getLog, events>>

\* runner(), line 203: Popen raises (no such binary, no permission).  Nothing
\* in runner() catches it: the thread ends and line 211 is never reached.
RunnerPopenFail ==
    /\ runner = "starting"
    /\ runner' = "crashed"
    /\ UNCHANGED <<others, reached, pc, stage, error, fs, total_dur, dur_step2, proc, bproc,
                   pipe, queue, emitLog, getLog, events, procLog>>

\* The process writes a line to its stderr.
ProcEmit ==
    /\ proc = "running"
    /\ Len(emitLog) < MaxLines
    /\ \E l \in DiagLines :
        /\ pipe' = Append(pipe, l)
        /\ emitLog' = Append(emitLog, l)
    /\ UNCHANGED <<others, reached, pc, stage, error, fs, total_dur, dur_step2, runner, proc, bproc,
                   queue, getLog, events, procLog>>

\* The process exits and its end of the pipe is closed.
ProcExit ==
    /\ proc = "running"
    /\ \E rc \in ExitCodes :
        /\ fs' \in ExitOutcomes(stage, rc)
        /\ procLog' = Append(procLog, Exited(stage, "stream", rc))
    /\ proc' = "exited"
    /\ UNCHANGED <<others, reached, pc, stage, error, total_dur, dur_step2, runner, bproc,
                   pipe, queue, emitLog, getLog, events>>

\* A variant of QueuePut: a stack instead of a queue.
QueuePutFront(q, x) == <<x>> \o q

\* stderr_lines.put
QueuePut(q, x) == Append(q, x)

\* runner(), lines 206-210: readline returns a line, which is put.
RunnerRead ==
    /\ runner = "reading"
    /\ pipe # <<>>
    /\ queue' = QueuePut(queue, Head(pipe))
    /\ pipe' = Tail(pipe)
    /\ UNCHANGED <<others, reached, pc, stage, error, fs, total_dur, dur_step2, runner, proc, bproc,
                   emitLog, getLog, events, procLog>>

\* runner(), lines 206-208: readline returns "" (end of file) and
\* proc.poll() is not None.
EofReached == pipe = <<>> /\ proc = "exited"

\* runner(), lines 207-211: the loop breaks and the sentinel is put.
RunnerEof ==
    /\ runner = "reading"
    /\ EofReached
    /\ queue' = QueuePut(queue, Sentinel)
    /\ runner' = "done"
    /\ UNCHANGED <<others, reached, pc, stage, error, fs, total_dur, dur_step2, proc, bproc,
                   pipe, emitLog, getLog, events, procLog>>

\* ------------------------------------------------------ specifications

\* --------------------------------------------------- the interface thread

\* A variant of DoneScheduled: the except clause of lines 606-609 does not
\* return, so line 611 is reached after an error as well.
DoneScheduledAlways == pc \in {"returned", "raised"}

\* download_and_reverse, lines 599-611: master.after(0, self.on_reverse_done)
\* is reached when two_step_reverse_and_fps has returned; after an exception
\* the except clause logs it and the thread returns.
DoneScheduled == pc = "returned"

\* load_vlc_media, lines 621-625: the reversed file becomes the player's
\* media if it is a file.
LoadVlcMedia == IF fs["out"].ex THEN "loaded" ELSE "nofile"

\* on_reverse_done, lines 615-618, run by the main loop once it is scheduled.
OnReverseDone ==
    /\ DoneScheduled
    /\ media = "none"
    /\ media' = LoadVlcMedia
    /\ UNCHANGED <<pipeVars, progVars, closeVars, parseVars, jobVars, dlVars, fmtVars>>

UiNext == OnReverseDone

JobNext ==
    \/ OnGenerate
    \/ DownloadOk
    \/ DownloadFail
    \/ Probe1
    \/ StartRunner
    \/ ParseTimeout
    \/ ParseSentinel
    \/ ParseDiagLine
    \/ BlockLaunch
    \/ BlockLaunchFail
    \/ BlockExit
    \/ Probe2
    \/ Reset
    \/ Cleanup

RunnerNext ==
    \/ RunnerPopen
    \/ RunnerPopenFail
    \/ RunnerRead
    \/ RunnerEof

ProcNext ==
    \/ ProcEmit
    \/ ProcExit

Next == JobNext \/ RunnerNext \/ ProcNext \/ UiNext

Spec == Init /\ [][Next]_vars

\* Every thread and every process that can take a step eventually takes one.
FairSpec ==
    /\ Spec
    /\ WF_vars(JobNext)
    /\ WF_vars(RunnerNext)
    /\ WF_vars(ProcNext)

\* ------------------------------------- the parser on single lines

\* What stands before the marker: nothing, words, a word joined to the
\* marker, white space, and an earlier marker that no token follows.
ParsePrefixes == {<<>>, <<"f", "r", "a", "m", "e", "=", "1", " ", "f", "p", "s", "=", "0", ".", "0", " ">>, <<"o", "u", "t", "_">>, <<" ", " ">>, <<"t", "i", "m", "e", "=", " ">>, <<"t", "i", "m", "e", "=", "N", "/", "A", " ">>}

\* What stands after the token: the end of the line or a space and more.
ParseSuffixes == {<<>>, <<"\n">>, <<" ", "b", "i", "t", "r", "a", "t", "e", "=", "1", "\n">>, <<" ", "t", "i", "m", "e", "=", "0", "9", ":", "0", "9", ":", "0", "9", "\n">>}

\* Numeric segments, each with its value in thousandths.
Segments == {[text |-> <<"0", "1">>, milli |-> 1000],
             [text |-> <<"0", "2">>, milli |-> 2000],
             [text |-> <<"0", "3", ".", "5", "0">>, milli |-> 3500],
             [text |-> <<"0", "0">>, milli |-> 0],
             [text |-> <<".", "5">>, milli |-> 500],
             [text |-> <<"1", "e", "0">>, milli |-> 1000],
             [text |-> <<"+", "7">>, milli |-> 7000]}

\* Lines without the marker.
PlainLines == {<<>>, <<"f", "r", "a", "m", "e", "=", "1", "\n">>, <<"t", "i", "m", "e", " ", "0", "1", ":", "0", "2", ":", "0", "3", "\n">>, <<"T", "I", "M", "E", "=", "0", "1", ":", "0", "2", ":", "0", "3", "\n">>, <<"t", "i", "m", " ", "e", "=", "0", "1", ":", "0", "2", ":", "0", "3", "\n">>}

\* The line prefix "time=" H ":" M ":" S suffix.
MarkedLine(prefix, h, m, s, suffix) ==
    prefix \o TimeMarker \o h.text \o <<":">> \o m.text \o <<":">> \o s.text \o suffix

\* The lines the loop body is tried on, with the duration it is given: a
\* marker followed by H:M:S, or no marker at all.
ParseInputs ==
    {[kind |-> "marked",
      line |-> MarkedLine(x[1], x[2], x[3], x[4], x[5]),
      dur |-> d,
      milli |-> x[2].milli * 3600 + x[3].milli * 60 + x[4].milli,
      first |-> ~Contains(x[1], TimeMarker)] :
        x \in ParsePrefixes \X Segments \X Segments \X Segments \X ParseSuffixes,
        d \in {0} \cup Durations}
    \cup
    {[kind |-> "plain", line |-> l, dur |-> d, milli |-> 0, first |-> TRUE] :
        l \in PlainLines, d \in {0} \cup Durations}

\* The loop body is run on a line that carries a marker followed by H:M:S.
ParseMarked ==
    /\ parseIn.kind = "marked"
    /\ parseOut = Pending
    /\ parseOut' = ParseLine(parseIn.line, parseIn.dur)
    /\ UNCHANGED <<pipeVars, progVars, closeVars, media, parseIn, jobVars, dlVars, fmtVars>>

\* The loop body is run on a line without the marker.
ParsePlain ==
    /\ parseIn.kind = "plain"
    /\ parseOut = Pending
    /\ parseOut' = ParseLine(parseIn.line, parseIn.dur)
    /\ UNCHANGED <<pipeVars, progVars, closeVars, media, parseIn, jobVars, dlVars, fmtVars>>

ParseInit ==
    /\ PipeIdle
    /\ parseIn \in ParseInputs
    /\ parseOut = Pending
    /\ JobsIdle
    /\ DlIdle
    /\ FmtIdle
    /\ UiIdle

ParseNext == ParseMarked \/ ParsePlain

SpecParse == ParseInit /\ [][ParseNext]_vars

\* ------------------------------------------- jobs started by on_generate

\* on_choose_temp_folder, lines 496-500.
OnChooseTempFolder ==
    /\ ~closed.done
    /\ \E d \in Dirs : temp_dir' = d
    /\ temp_dir' # temp_dir
    /\ UNCHANGED <<pipeVars, progVars, closeVars, media, parseVars, dlVars, fmtVars, video_paths, jobs>>

\* on_generate, lines 543-613, on a click with a URL and a resolution: no
\* statement looks at a job that is running.  The paths are set from
\* temp_dir and a new thread is created.
GenerateJob ==
    \E j \in Jobs :
        /\ jobs[j].phase = "idle"
        /\ \A i \in Jobs : i < j => jobs[i].phase # "idle"
        /\ video_paths' = temp_dir
        /\ jobs' = [jobs EXCEPT ![j] = [phase |-> "created", dir |-> "none"]]
        /\ UNCHANGED <<pipeVars, progVars, closeVars, media, parseVars, dlVars, fmtVars, temp_dir>>

\* download_and_reverse, lines 581-583: download_video is called with
\* self.downloaded_video_path as it is now.
JobDownloadBegin ==
    \E j \in Jobs :
        /\ jobs[j].phase = "created"
        /\ jobs' = [jobs EXCEPT ![j] = [phase |-> "downloading", dir |-> video_paths]]
        /\ UNCHANGED <<pipeVars, progVars, closeVars, media, parseVars, dlVars, fmtVars, temp_dir, video_paths>>

\* lines 588-604: download_video has returned and two_step_reverse_and_fps
\* is called with the two paths as they are now.
JobReverseBegin ==
    \E j \in Jobs :
        /\ jobs[j].phase = "downloading"
        /\ jobs' = [jobs EXCEPT ![j] = [phase |-> "transcoding", dir |-> video_paths]]
        /\ UNCHANGED <<pipeVars, progVars, closeVars, media, parseVars, dlVars, fmtVars, temp_dir, video_paths>>

\* lines 584-586 and 606-609: the call raises and the thread returns.
JobFail ==
    \E j \in Jobs :
        /\ jobs[j].phase \in {"downloading", "transcoding"}
        /\ jobs' = [jobs EXCEPT ![j] = [phase |-> "failed", dir |-> "none"]]
        /\ UNCHANGED <<pipeVars, progVars, closeVars, media, parseVars, dlVars, fmtVars, temp_dir, video_paths>>

\* line 611: two_step_reverse_and_fps has returned and the thread ends.
JobDone ==
    \E j \in Jobs :
        /\ jobs[j].phase = "transcoding"
        /\ jobs' = [jobs EXCEPT ![j] = [phase |-> "done", dir |-> "none"]]
        /\ UNCHANGED <<pipeVars, progVars, closeVars, media, parseVars, dlVars, fmtVars, temp_dir, video_paths>>

JobsInit == PipeIdle /\ ParseIdle /\ JobsIdle /\ DlIdle /\ FmtIdle /\ UiIdle

JobsNext ==
    \/ OnChooseTempFolder
    \/ GenerateJob
    \/ JobDownloadBegin
    \/ JobReverseBegin
    \/ JobFail
    \/ JobDone

SpecJobs == JobsInit /\ [][JobsNext]_vars

\* ------------------------------------------------ download_video's hook

\* The number of hook events of one download that are followed.
MaxHooks == 3

\* A value of a dictionary that may lack the key or hold None: {} or {v}.
Truthy(x) == x # {} /\ x # {0}

\* Python's x or y.
PyOr(x, y) == IF Truthy(x) THEN x ELSE y

ValueOf(x) == CHOOSE v \in x : TRUE

\* The byte totals and byte counts an event can carry.
ByteTotals == {{}, {0}, {4}}

ByteCounts == {{}, {2}}

\* line 90: total = d.get("total_bytes") or d.get("total_bytes_estimate") or 0
HookTotal(d) == ValueOf(PyOr(PyOr(d.total_bytes, d.total_bytes_estimate), {0}))

\* line 91: downloaded = d.get("downloaded_bytes", 0)
HookDownloaded(d) == IF d.downloaded_bytes = {} THEN 0 ELSE ValueOf(d.downloaded_bytes)

\* lines 92-95: progress_callback(fraction * 100) if total > 0.
HookDownloading(calls, d) ==
    IF HookTotal(d) > 0
    THEN Append(calls, Reduced(HookDownloaded(d) * 100, HookTotal(d)))
    ELSE calls

\* A variant of HookFinished: no callback when the download has finished.
HookFinishedSilent(calls, d) == calls

\* lines 96-98: progress_callback(100).
HookFinished(calls, d) == Append(calls, Rat(100, 1))

\* hook(d), lines 88-98.
Hook(calls, d) ==
    IF d.status = "downloading" THEN HookDownloading(calls, d)
    ELSE IF d.status = "finished" THEN HookFinished(calls, d)
    ELSE calls

HookEvent(st, tb, tbe, db) ==
    [status |-> st, total_bytes |-> tb, total_bytes_estimate |-> tbe,
     downloaded_bytes |-> db]

\* yt_dlp calls the hook with a "downloading" event.
HookOnDownloading ==
    /\ Len(hookLog) < MaxHooks
    /\ \E tb \in ByteTotals, tbe \in ByteTotals, db \in ByteCounts :
        LET d == HookEvent("downloading", tb, tbe, db)
        IN  /\ hookLog' = Append(hookLog, d)
            /\ dlCalls' = Hook(dlCalls, d)
    /\ UNCHANGED <<pipeVars, progVars, closeVars, media, parseVars, jobVars, fmtVars>>

\* yt_dlp calls the hook with a "finished" event.
HookOnFinished ==
    /\ Len(hookLog) < MaxHooks
    /\ \E tb \in ByteTotals :
        LET d == HookEvent("finished", tb, {}, {})
        IN  /\ hookLog' = Append(hookLog, d)
            /\ dlCalls' = Hook(dlCalls, d)
    /\ UNCHANGED <<pipeVars, progVars, closeVars, media, parseVars, jobVars, fmtVars>>

\* yt_dlp calls the hook with an "error" event.
HookOnError ==
    /\ Len(hookLog) < MaxHooks
    /\ LET d == HookEvent("error", {}, {}, {})
       IN  /\ hookLog' = Append(hookLog, d)
           /\ dlCalls' = Hook(dlCalls, d)
    /\ UNCHANGED <<pipeVars, progVars, closeVars, media, parseVars, jobVars, fmtVars>>

DownloadInit == PipeIdle /\ ParseIdle /\ JobsIdle /\ DlIdle /\ FmtIdle /\ UiIdle

DownloadNext == HookOnDownloading \/ HookOnFinished \/ HookOnError

SpecDownload == DownloadInit /\ [][DownloadNext]_vars

\* ------------------------------------------------ get_available_formats

\* The length of info["formats"] up to which lists are tried.
MaxFormats == 3

\* The formats yt_dlp can list: with or without video, the height absent
\* (None), 0 or a number of lines, and a format_id.
FormatEntries ==
    [vcodec : {"none", "avc1"},
     height : {{}, {0}, {360}, {1024}, {1025}},
     format_id : {"a", "b"}]

FormatLists == UNION {[1..n -> FormatEntries] : n \in 0..MaxFormats}

\* line 69: height = f.get("height") or 0
HeightOf(f) == ValueOf(PyOr(f.height, {0}))

\* lines 67-73: the formats the loop does not skip.
Qualifies(f) ==
    /\ f.vcodec # "none"
    /\ HeightOf(f) # 0
    /\ ~(HeightOf(f) > 1024)

\* A variant of InsertBest: a later format of a height replaces the entry.
InsertBestLastWins(best, f) ==
    IF ~Qualifies(f) THEN best
    ELSE IF \E i \in DOMAIN best : best[i][1] = HeightOf(f)
    THEN [i \in DOMAIN best |->
             IF best[i][1] = HeightOf(f) THEN <<HeightOf(f), f.format_id>>
             ELSE best[i]]
    ELSE Append(best, <<HeightOf(f), f.format_id>>)

\* lines 67-76, one turn of the loop: best_for_height as the sequence of its
\* items in insertion order.
InsertBest(best, f) ==
    IF Qualifies(f) /\ \A i \in DOMAIN best : best[i][1] # HeightOf(f)
    THEN Append(best, <<HeightOf(f), f.format_id>>)
    ELSE best

RECURSIVE BestForHeight(_)
\* lines 66-76: the loop over info["formats"].
BestForHeight(fmts) ==
    IF fmts = <<>> THEN <<>>
    ELSE InsertBest(BestForHeight(SubSeq(fmts, 1, Len(fmts) - 1)), fmts[Len(fmts)])

\* The place of item x in a list sorted by height: behind every item whose
\* height is not larger (list.sort is stable).
SortedInsert(sorted, x) ==
    LET k == Cardinality({i \in DOMAIN sorted : sorted[i][1] <= x[1]})
    IN  SubSeq(sorted, 1, k) \o <<x>> \o SubSeq(sorted, k + 1, Len(sorted))

RECURSIVE SortByHeight(_)
\* line 78: results.sort(key=lambda x: x[0])
SortByHeight(items) ==
    IF items = <<>> THEN <<>>
    ELSE SortedInsert(SortByHeight(SubSeq(items, 1, Len(items) - 1)), items[Len(items)])

\* get_available_formats, lines 66-79, on the formats of info.
GetAvailableFormats(fmts) == SortByHeight(BestForHeight(fmts))

\* get_available_formats returns.
ListFormats ==
    /\ ~fmtOut.done
    /\ fmtOut' = [done |-> TRUE, list |-> GetAvailableFormats(fmtIn)]
    /\ UNCHANGED <<pipeVars, progVars, closeVars, media, parseVars, jobVars, dlVars, fmtIn>>

FormatsInit ==
    /\ PipeIdle /\ ParseIdle /\ JobsIdle /\ DlIdle /\ UiIdle
    /\ fmtIn \in FormatLists
    /\ fmtOut = NoResult

FormatsNext == ListFormats

SpecFormats == FormatsInit /\ [][FormatsNext]_vars

\* ------------------------------------------------------- set_progress

\* The number of calls of set_progress that are followed.
MaxReports == 2

\* A variant of ClampHigh: no upper limit.
ClampHighOff(pct) == pct

\* lines 703-704: if pct < 0: pct = 0
ClampLow(pct) == IF ~RatLeq(Rat(0, 1), pct) THEN Rat(0, 1) ELSE pct

\* lines 705-706: if pct > 100: pct = 100
ClampHigh(pct) == IF ~RatLeq(pct, Rat(100, 1)) THEN Rat(100, 1) ELSE pct

\* set_progress, lines 702-709: the value progress_var.set is given.
SetProgress(pct) == ClampHigh(ClampLow(pct))

\* A progress line with a negative elapsed time.
LineNegative == <<"t", "i", "m", "e", "=", "-", "0", "1", ":", "0", "0", ":", "0", "0", ".", "0", "0", " ", "x", "\n">>

\* What progress_updater is called with: the percentages
\* parse_ffmpeg_progress computes, and the 0 of line 231.
ReversePcts ==
    {Rat(0, 1)} \cup
    {ParseLine(l, d).pct : l \in {LineHalf, LineFive, LineTen, LineNegative},
                           d \in Durations}

\* What dl_prog is called with: the values hook gives the callback, the
\* bytes downloaded below or above the (estimated) total.
DownloadPcts ==
    UNION {{Hook(<<>>, d)[i] : i \in DOMAIN Hook(<<>>, d)} :
              d \in {HookEvent(st, tb, {}, db) :
                        st \in {"downloading", "finished"},
                        tb \in ByteTotals,
                        db \in {{}, {2}, {6}}}}

\* set_progress(pct, ...) called from the place src.
Report(src, pct) ==
    /\ reports' = Append(reports, [src |-> src, pct |-> pct])
    /\ progress_var' = SetProgress(pct)
    /\ UNCHANGED <<pipeVars, media, parseVars, jobVars, dlVars, fmtVars, closeVars>>

\* on_generate, line 574: self.set_progress(0)
ProgressOnGenerate ==
    /\ Len(reports) < MaxReports
    /\ Report("generate", Rat(0, 1))

\* dl_prog, lines 577-579.
ProgressOnDownload ==
    /\ Len(reports) < MaxReports
    /\ \E pct \in DownloadPcts : Report("download", pct)

\* download_and_reverse, line 590: set_progress(0, "Reversing...")
ProgressOnReversing ==
    /\ Len(reports) < MaxReports
    /\ Report("reversing", Rat(0, 1))

\* progress_updater, lines 595-597.
ProgressOnReverse ==
    /\ Len(reports) < MaxReports
    /\ \E pct \in ReversePcts : Report("reverse", pct)

\* on_reverse_done, line 616: set_progress(100, "Reverse done.")
ProgressOnDone ==
    /\ Len(reports) < MaxReports
    /\ Report("done", Rat(100, 1))

ProgressInit ==
    PipeIdle /\ ParseIdle /\ JobsIdle /\ DlIdle /\ FmtIdle /\ UiIdle

ProgressNext ==
    \/ ProgressOnGenerate
    \/ ProgressOnDownload
    \/ ProgressOnReversing
    \/ ProgressOnReverse
    \/ ProgressOnDone

SpecProgress == ProgressInit /\ [][ProgressNext]_vars

\* ------------------------------------------------------------ on_close

\* The settings load_config can return: no folder or a folder of an earlier
\* session, and the flag.
SavedSettings ==
    [temp_folder : {"None"} \cup Dirs, keep_reversed_video : BOOLEAN]

\* __init__, lines 247-255 and 337: temp_dir is the saved folder if it is a
\* directory and the folder "T" that tempfile.mkdtemp creates if not; the
\* checkbox shows the saved flag.
WindowStart(cfg, d0) ==
    /\ settings = cfg
    /\ keep_video_var = cfg.keep_reversed_video
    /\ temp_dir = IF cfg.temp_folder \in d0 THEN cfg.temp_folder ELSE "T"
    /\ dirs = IF cfg.temp_folder \in d0 THEN d0 ELSE d0 \cup {"T"}
    /\ video_paths = "none"
    /\ jobs = [j \in Jobs |-> NoJob]
    /\ closed = NotClosed

\* A click on the checkbox "Do not delete reversed video".
OnKeepVideoChanged ==
    /\ ~closed.done
    /\ keep_video_var' = ~keep_video_var
    /\ UNCHANGED <<pipeVars, media, parseVars, jobVars, dlVars, fmtVars, progVars,
                   dirs, settings, closed>>

\* A variant of RemoveOnClose: the folder is removed whatever the flag says.
RemoveOnCloseAlways == TRUE

\* on_close, line 457: if not self.keep_video_var.get()
RemoveOnClose == ~keep_video_var

\* on_close, lines 452-465: shutil.rmtree removes temp_dir if it is a
\* directory, then the folder and the flag are saved to settings.json.
OnClose ==
    /\ ~closed.done
    /\ dirs' = IF RemoveOnClose /\ temp_dir \in dirs THEN dirs \ {temp_dir} ELSE dirs
    /\ settings' = [temp_folder |-> temp_dir, keep_reversed_video |-> keep_video_var]
    /\ closed' = [done |-> TRUE, before |-> dirs]
    /\ UNCHANGED <<pipeVars, media, parseVars, jobVars, dlVars, fmtVars, progVars,
                   keep_video_var>>

CloseInit ==
    /\ PipeIdle /\ ParseIdle /\ DlIdle /\ FmtIdle /\ ProgressStart
    /\ \E cfg \in SavedSettings, d0 \in SUBSET Dirs : WindowStart(cfg, d0)

CloseNext ==
    \/ OnChooseTempFolder
    \/ OnKeepVideoChanged
    \/ OnClose

SpecClose == CloseInit /\ [][CloseNext]_vars

\* ------------------------------------------------------------ properties

Last(q) == q[Len(q)]

IsPrefix(a, b) == Len(a) <= Len(b) /\ SubSeq(b, 1, Len(a)) = a

\* The diagnostic lines of a log, without the sentinel.
LinesOf(log) == SelectSeq(log, LAMBDA x : x # Sentinel)

SentinelCount(log) == Cardinality({i \in DOMAIN log : log[i] = Sentinel})

\* A transcoder process of stage st has been started in this call.
RanStage(st) ==
    \E i \in DOMAIN procLog : procLog[i].ev = "start" /\ procLog[i].stage = st

\* A transcoder process of stage st has exited with a non-zero status.
StageExitedNonZero(st) ==
    \E i \in DOMAIN procLog :
        procLog[i].ev = "exit" /\ procLog[i].stage = st /\ procLog[i].rc # 0

\* two_step_reverse_and_fps has gone back to its caller.
CallEnded == pc \in {"returned", "raised"}

\* The callbacks parse_ffmpeg_progress made in the current stage.
StageEvents == SelectSeq(events, LAMBDA e : e.stage = stage)

\* C1: when the launch inside the streaming runner fails,
\* two_step_reverse_and_fps ends with an error; it does not hang: the job
\* thread has gone back to its caller or some step that changes the state
\* is still possible.
C1_LaunchFailureTerminates ==
    runner = "crashed" => (CallEnded \/ ENABLED <<Next>>_vars)

\* C2: once a stage-2 process has been run, the intermediate file does not
\* exist when two_step_reverse_and_fps returns or raises on the exit status
\* of a process.
C2_IntermediateRemoved ==
    (RanStage(2) /\ (pc = "returned" \/ (pc = "raised" /\ error = "CalledProcessError")))
        => ~fs["step1"].ex

\* C3: after a stage-1 process has exited non-zero, no stage-2 process is
\* ever launched and the call does not return successfully.
C3_ReverseFailureAborts ==
    StageExitedNonZero(1) => (~RanStage(2) /\ pc # "returned")

\* C4: when the job fails on a launch failure or a non-zero exit, the final
\* output file does not exist when the failure is reported.
C4_FailedJobLeavesNoOutput ==
    (pc = "raised" /\ error \in {"OSError", "CalledProcessError"}) => ~fs["out"].ex

\* C5: after two_step_reverse_and_fps has returned normally, the
\* intermediate file does not exist and the final output file exists.
C5_SuccessLeavesOnlyOutput ==
    pc = "returned" => (~fs["step1"].ex /\ fs["out"].ex)

\* C5, reached: a normal return in which all four processes exited with 0,
\* over an intermediate file left by an earlier run.
C5_Witness ==
    /\ pc = "returned"
    /\ Len(procLog) = 8
    /\ \A i \in DOMAIN procLog : procLog[i].rc = 0
    /\ ~fs["step1"].ex
    /\ fs["out"].ex

\* C6: the stages are sequential: no two transcoder processes are alive at
\* once (every start follows the exit of the process started before it), and
\* no stage-1 process starts after a stage-2 process.
C6_StagesSequential ==
    /\ ~(proc = "running" /\ bproc = "running")
    /\ \A i \in DOMAIN procLog :
        (procLog[i].ev = "start" /\ i > 1) =>
            /\ procLog[i - 1].ev = "exit"
            /\ procLog[i - 1].stage <= procLog[i].stage
    /\ \A i \in DOMAIN procLog :
        (procLog[i].ev = "exit") =>
            /\ i > 1
            /\ procLog[i - 1] = Started(procLog[i].stage, procLog[i].mode)

\* C6, reached: the streaming process of stage 2 is running after both
\* stage-1 processes have exited.
C6_Witness ==
    /\ stage = 2
    /\ proc = "running"
    /\ Len(procLog) = 5

\* C7: a malformed time marker does not fail the caller:
\* parse_ffmpeg_progress never raises.
C7_ParserNeverRaises == error # "ValueError"

\* C8: every stage-2 fraction is the elapsed time scaled by the duration of
\* the intermediate file as stage 1 left it, not by the input's duration.
C8_Stage2UsesIntermediateDuration ==
    (stage = 2 /\ pc # "returned") =>
        \A i \in DOMAIN events :
            events[i].stage = 2 =>
                /\ IsMedia(fs["step1"])
                /\ RatEq(events[i].pct, Percent(events[i].cur, fs["step1"].dur))

\* C8, reached: a 10-second input, a 5-second intermediate file and a
\* stage-2 event of 100 for an elapsed time of 5 seconds.
C8_Witness ==
    /\ stage = 2
    /\ pc = "parse"
    /\ fs["orig"].dur = 10
    /\ fs["step1"].dur = 5
    /\ total_dur = 10
    /\ \E i \in DOMAIN events :
        /\ events[i].stage = 2
        /\ RatEq(events[i].cur, Rat(5, 1))
        /\ RatEq(events[i].pct, Rat(100, 1))

\* C9: the sentinel is enqueued once, after the process has exited and
\* after every line it emitted; parse_ffmpeg_progress returns when and only
\* when it has dequeued the sentinel, never on an empty queue alone.
C9_SentinelProtocol ==
    /\ SentinelCount(getLog \o queue) <= 1
    /\ runner = "done" => SentinelCount(getLog \o queue) = 1
    /\ SentinelCount(getLog \o queue) = 1 =>
        /\ proc = "exited"
        /\ pipe = <<>>
        /\ getLog \o queue = Append(emitLog, Sentinel)
    /\ pc = "parse" => SentinelCount(getLog) = 0
    /\ (\/ pc \in {"block", "blockwait", "probe2", "reset", "cleanup", "returned"}
        \/ (pc = "raised" /\ error # "ValueError"))
        => (getLog # <<>> /\ Last(getLog) = Sentinel)

\* C9, reached: the parser has returned on the sentinel after two lines.
C9_Witness ==
    /\ pc = "block"
    /\ Len(getLog) = 3
    /\ Last(getLog) = Sentinel
    /\ queue = <<>>

\* The elapsed time each line carries: its parse against a duration of 1.
MarkerTable == [l \in DiagLines |-> ParseLine(l, 1)]

MarkerOf(l) == MarkerTable[l]

MarkersIncreasing(log) ==
    \A i, j \in DOMAIN log :
        (i < j /\ MarkerOf(log[i]).kind = "event" /\ MarkerOf(log[j]).kind = "event")
            => ~RatLeq(MarkerOf(log[j]).cur, MarkerOf(log[i]).cur)

NonDecreasing(evs) ==
    \A i, j \in DOMAIN evs : i < j => RatLeq(evs[i].pct, evs[j].pct)

\* C10: the parser receives the lines in the order the process emitted them,
\* none dropped or reordered, so for increasing elapsed-time markers the
\* fractions delivered within one stage are non-decreasing.
C10_FifoMonotone ==
    /\ IsPrefix(LinesOf(getLog), emitLog)
    /\ MarkersIncreasing(emitLog) => NonDecreasing(StageEvents)

\* C10, reached: two increasing markers delivered as two increasing fractions.
C10_Witness ==
    /\ MarkersIncreasing(emitLog)
    /\ Len(StageEvents) = 2
    /\ ~RatLeq(StageEvents[2].pct, StageEvents[1].pct)
    /\ LinesOf(getLog) = emitLog

\* C11: with a total_duration of 0 parse_ffmpeg_progress makes no callback,
\* whatever lines it reads.
C11_NoEventWithoutDuration ==
    (stage \in {1, 2} /\ StageDuration = 0) => StageEvents = <<>>

\* C11, reached: the probe of a valid input gave 0 and two well-formed
\* markers have been parsed without a callback.
C11_Witness ==
    /\ stage = 1
    /\ pc = "parse"
    /\ IsMedia(fs["orig"])
    /\ total_dur = 0
    /\ getLog = <<LineFive, LineTen>>
    /\ events = <<>>

\* C12: every fraction delivered to the progress callback lies in [0, 100].
C12_FractionsInRange ==
    \A i \in DOMAIN events :
        RatLeq(Rat(0, 1), events[i].pct) /\ RatLeq(events[i].pct, Rat(100, 1))

\* Both stages ran to the end of their blocking runs.
BothStagesRan ==
    \A st \in {1, 2} :
        \E i \in DOMAIN procLog :
            procLog[i] = Exited(st, "block", 0)

\* C14: a failing duration probe raises nothing out of get_video_duration:
\* a call of two_step_reverse_and_fps never ends because of a probe, and a
\* call whose two probes gave 0 has still run both stages when it returns.
C14_ProbeFailuresAbsorbed ==
    /\ error # "ProbeError"
    /\ (pc = "returned" /\ total_dur = 0 /\ dur_step2 = 0) => BothStagesRan

\* C14, reached: both probes failed and the call returned after both stages.
C14_Witness ==
    /\ pc = "returned"
    /\ total_dur = 0
    /\ dur_step2 = 0
    /\ BothStagesRan
    /\ Len(procLog) = 8

\* C15: a transcoder process is launched only after download_video has
\* returned, never after a download error; load_vlc_media is called only
\* after two_step_reverse_and_fps has returned without an error, never after
\* an error of the download or of the reversal.
C15_JobStepsInOrder ==
    /\ pc \in {"generate", "download", "dl_failed"} =>
           (procLog = <<>> /\ runner = "none" /\ bproc = "none" /\ media = "none")
    /\ media # "none" => (pc = "returned" /\ error = "none")
    /\ (pc \in {"raised", "dl_failed"} \/ error # "none") => media = "none"

\* C15, reached: after download and both stages the reversed file is loaded.
C15_Witness ==
    /\ media = "loaded"
    /\ pc = "returned"
    /\ BothStagesRan

\* A job thread is inside download_video or two_step_reverse_and_fps.
InFlight(j) == jobs[j].phase \in {"downloading", "transcoding"}

\* C16: no two jobs are downloading or transcoding on the paths of the same
\* folder at the same time.
C16_OneJobPerDirectory ==
    \A i, j \in Jobs :
        (i # j /\ InFlight(i) /\ InFlight(j)) => jobs[i].dir # jobs[j].dir

\* C17: when two_step_reverse_and_fps has returned, a callback of 100 has
\* been made in stage 1 (REVERSE) and in stage 2 (RESAMPLE).
C17_BothStagesReachHundred == pc = "returned" => reached = {1, 2}

\* A "downloading" event that carries a positive byte total.
CarriedPositiveTotal(d) ==
    /\ d.status = "downloading"
    /\ \E v \in d.total_bytes \cup d.total_bytes_estimate : v > 0

\* C18: when the last hook event is "finished", the last call of the
\* progress callback is 100; and if no "downloading" event carried a
\* positive byte total, 100 is the only value the callback was given.
C18_FinishedReportsHundred ==
    (hookLog # <<>> /\ Last(hookLog).status = "finished") =>
        /\ dlCalls # <<>>
        /\ Last(dlCalls) = Rat(100, 1)
        /\ (\A i \in DOMAIN hookLog : ~CarriedPositiveTotal(hookLog[i])) =>
               \A k \in DOMAIN dlCalls : dlCalls[k] = Rat(100, 1)

\* C18, reached: two "downloading" events without a positive total, then
\* "finished": the callback was called once, with 100.
C18_Witness ==
    /\ Len(hookLog) = 3
    /\ hookLog[1] = HookEvent("downloading", {}, {0}, {2})
    /\ hookLog[2] = HookEvent("downloading", {0}, {}, {2})
    /\ hookLog[3].status = "finished"
    /\ dlCalls = <<Rat(100, 1)>>

\* Format k of the input has video and the height h.
VideoOfHeight(k, h) == fmtIn[k].vcodec # "none" /\ fmtIn[k].height = {h}

\* C19: the list get_available_formats returns is strictly ascending by
\* height (so each height appears once), its heights lie in 1..1024, and the
\* format_id of a height is that of the first format of the input that has
\* video and this height.
C19_FormatsSortedFirstWins ==
    fmtOut.done =>
        /\ \A i \in 1..(Len(fmtOut.list) - 1) :
               fmtOut.list[i][1] < fmtOut.list[i + 1][1]
        /\ \A i \in DOMAIN fmtOut.list :
               /\ fmtOut.list[i][1] \in 1..1024
               /\ \E k \in DOMAIN fmtIn :
                      /\ VideoOfHeight(k, fmtOut.list[i][1])
                      /\ fmtIn[k].format_id = fmtOut.list[i][2]
                      /\ \A j \in 1..(k - 1) : ~VideoOfHeight(j, fmtOut.list[i][1])

\* C19, reached: 1024 listed before two formats of height 360.
C19_Witness ==
    /\ fmtOut.done
    /\ fmtIn = <<[vcodec |-> "avc1", height |-> {1024}, format_id |-> "b"],
                 [vcodec |-> "avc1", height |-> {360}, format_id |-> "a"],
                 [vcodec |-> "avc1", height |-> {360}, format_id |-> "b"]>>
    /\ fmtOut.list = <<<<360, "a">>, <<1024, "b">>>>

\* The starts of transcoder processes, in order.
Starts == SelectSeq(procLog, LAMBDA e : e.ev = "start")

\* C20: a call that returns has launched each command twice, in the order
\* stage-1 streaming, stage-1 blocking, stage-2 streaming, stage-2 blocking;
\* a blocking run starts right after the exit of the streaming run of the
\* same stage, when that process has exited and the parser has dequeued the
\* sentinel as its last item.
C20_EachCommandRunsTwice ==
    /\ pc = "returned" =>
           Starts = <<Started(1, "stream"), Started(1, "block"),
                      Started(2, "stream"), Started(2, "block")>>
    /\ \A i \in DOMAIN procLog :
           (procLog[i].ev = "start" /\ procLog[i].mode = "block") =>
               /\ i > 1
               /\ procLog[i - 1].ev = "exit"
               /\ procLog[i - 1].mode = "stream"
               /\ procLog[i - 1].stage = procLog[i].stage
    /\ bproc = "running" =>
           /\ proc = "exited"
           /\ pipe = <<>>
           /\ queue = <<>>
           /\ getLog # <<>>
           /\ Last(getLog) = Sentinel

\* C20, reached: the call has returned after its four launches.
C20_Witness ==
    /\ pc = "returned"
    /\ Len(procLog) = 8
    /\ procLog[3] = Started(1, "block")
    /\ procLog[7] = Started(2, "block")

\* C21: when two_step_reverse_and_fps has returned or raised, no transcoder
\* process it launched is still running.
C21_NoProcessOutlivesCall ==
    CallEnded => (proc # "running" /\ bproc # "running")

\* C22: the value of the progress bar lies in [0, 100]; it is 0 after a
\* report below 0, 100 after a report above 100 and the reported value
\* otherwise.
C22_ProgressClamped ==
    /\ RatLeq(Rat(0, 1), progress_var)
    /\ RatLeq(progress_var, Rat(100, 1))
    /\ reports # <<>> =>
           /\ ~RatLeq(Rat(0, 1), Last(reports).pct) => progress_var = Rat(0, 1)
           /\ ~RatLeq(Last(reports).pct, Rat(100, 1)) => progress_var = Rat(100, 1)
           /\ (RatLeq(Rat(0, 1), Last(reports).pct) /\ RatLeq(Last(reports).pct, Rat(100, 1)))
                  => progress_var = Last(reports).pct

\* C22, reached: a report below 0, then a report of 200 shown as 100.
C22_Witness ==
    /\ Len(reports) = 2
    /\ ~RatLeq(Rat(0, 1), reports[1].pct)
    /\ reports[2] = [src |-> "reverse", pct |-> Rat(200, 1)]
    /\ progress_var = Rat(100, 1)

\* C23: after on_close, temp_dir does not exist and every other folder is as
\* before if the flag is unset, every folder is as before if the flag is set,
\* and settings.json holds the current temp_dir and the current flag.
C23_CloseRemovesUnlessKept ==
    closed.done =>
        /\ settings = [temp_folder |-> temp_dir, keep_reversed_video |-> keep_video_var]
        /\ keep_video_var => dirs = closed.before
        /\ ~keep_video_var => dirs = closed.before \ {temp_dir}

\* C23, reached: a folder the user chose existed and was removed on close
\* with the flag unset, while the folder of the start is still there.
C23_Witness ==
    /\ closed.done
    /\ ~keep_video_var
    /\ temp_dir = "B"
    /\ closed.before = {"B", "T"}
    /\ dirs = {"T"}
    /\ settings = [temp_folder |-> "B", keep_reversed_video |-> FALSE]

\* The call gave the elapsed time that the segments of its line stand for.
ParsedAsWritten ==
    IF parseIn.dur > 0
    THEN /\ parseOut.kind = "event"
         /\ RatEq(parseOut.cur, Rat(parseIn.milli, 1000))
    ELSE parseOut.kind = "none"

\* C13 as stated: for every line in which a marker is followed by a token
\* H:M:S of numeric segments, ended by a space or the end of the line, the
\* elapsed time is h*3600 + m*60 + s; a line without the marker gives no event.
C13_AnyMarkerParsed ==
    parseOut # Pending =>
        /\ parseIn.kind = "marked" => ParsedAsWritten
        /\ parseIn.kind = "plain" => parseOut.kind = "none"

\* C13 as amended: the same for the lines in which the token follows the
\* first marker of the line.
C13_FirstMarkerParsed ==
    parseOut # Pending =>
        /\ (parseIn.kind = "marked" /\ parseIn.first) => ParsedAsWritten
        /\ parseIn.kind = "plain" => parseOut.kind = "none"

\* C13, reached: the token 01:02:03.50 inside a line gave 3723.5 seconds.
C13_Witness ==
    /\ parseIn.kind = "marked"
    /\ parseIn.first
    /\ parseIn.line = <<"f", "r", "a", "m", "e", "=", "1", " ", "f", "p", "s", "=", "0", ".", "0", " ", "t", "i", "m", "e", "=", "0", "1", ":", "0", "2", ":", "0", "3", ".", "5", "0", " ", "b", "i", "t", "r", "a", "t", "e", "=", "1", "\n">>
    /\ parseOut.kind = "event"
    /\ RatEq(parseOut.cur, Rat(37235, 10))

====
